---- MODULE Spec2Model ----
(***************************************************************************)
(* A model of the order-matching core of implementation.py: TradeOrder,    *)
(* OrderBook (add_order, _insert_sorted, match_orders) and StockExchange   *)
(* (add_order), driven by the broker threads of simulate_market_activity.  *)
(*                                                                         *)
(* A linked list of TradeOrder objects is a sequence of order records, the *)
(* head being element 1.  Every `with self.lock:` block is entered by an   *)
(* acquire step and left by a release step; the statements inside a block  *)
(* run while the lock is held, so the insert (lines 29-32) and one         *)
(* iteration of the matching loop (lines 53-70) are each one step.         *)
(***************************************************************************)
EXTENDS Integers, Sequences, FiniteSets, TLC

\* ---------------------------------------------------------------- constants

MAX_TICKERS == 1024

\* Bounds of the model: the number of add_order calls of a run (the driver
\* makes 5 x 50), and the highest price.
MaxCalls == 3
SoloCalls == 4
FairCalls == 2
LinCalls == 4
MaxPrice == 2

\* The brokers of lines 99-102 (two of the five).
Threads == {"broker1", "broker2"}
NoThread == "none"

\* Two of the symbols of line 87.
Symbols == {"AAPL", "GOOG"}

\* The value of hash_of before hash() has run on a symbol.
Unhashed == -1

\* hash(ticker_symbol) is salted per process: the values a run may produce
\* for each symbol.  -1017 % 1024 = 7, so the two symbols may collide.
HashSamples == [AAPL |-> {7}, GOOG |-> {8, -1017}]

\* line 79
TickerIndex(h) == h % MAX_TICKERS

\* The slots of order_books the sampled hash values can select.
Slots == UNION {{TickerIndex(h) : h \in HashSamples[s]} : s \in Symbols}

OrderTypes == {"Buy", "Sell"}
Quantities == {1, 2}
Prices == 1..MaxPrice

\* The arguments of one add_order call.
OrderArgs(types, syms, qtys, prices) ==
    [order_type : types, ticker_symbol : syms, quantity : qtys, price : prices]

\* Calls as the driver makes them (positive quantity and price), one symbol.
BookOrders == OrderArgs(OrderTypes, {"AAPL"}, Quantities, Prices)

\* One symbol, one share per order.
UnitOrders == OrderArgs(OrderTypes, {"AAPL"}, {1}, Prices)

\* Calls over both symbols.
ExchangeOrders == OrderArgs(OrderTypes, Symbols, {1}, Prices)

\* Calls the signature of add_order accepts, non-positive numbers included.
RawOrders == OrderArgs(OrderTypes, {"AAPL"}, {-1, 0, 1}, {0, 1})

NoOrder == [order_type |-> "none", ticker_symbol |-> "none", quantity |-> 0, price |-> 0]

VARIABLES
    hash_of,      \* symbol -> its hash value, once computed
    buy_orders,   \* slot -> the buy list of that OrderBook, head first
    sell_orders,  \* slot -> the sell list of that OrderBook, head first
    lock,         \* slot -> the thread holding that OrderBook's lock
    pc,           \* thread -> its position in add_order / match_orders
    new_order,    \* thread -> the arguments of its call in progress
    crossed,      \* thread -> whether its order crossed when it was inserted
    num_calls,    \* number of add_order calls started
    arrivals,     \* slot -> number of orders inserted so far
    inserted_qty, \* slot -> quantity inserted so far, per side
    trades,       \* slot -> the trade lines printed for that book, oldest first
    calls         \* history: thread -> the calls it has made, in program order

vars == <<hash_of, buy_orders, sell_orders, lock, pc, new_order, crossed,
          num_calls, arrivals, inserted_qty, trades, calls>>

\* ------------------------------------------------------------ pure functions

Min(a, b) == IF a <= b THEN a ELSE b

\* TradeOrder.__init__ (seq is the arrival number, standing for object identity)
TradeOrder(args, seq) ==
    [order_type |-> args.order_type, ticker_symbol |-> args.ticker_symbol,
     quantity |-> args.quantity, price |-> args.price, seq |-> seq]

\* GoesFirst with the price tests of line 39 made non-strict: a new order
\* goes ahead of a head of equal price.
GoesFirstOnTie(head, order, descending) ==
    \/ head = <<>>
    \/ descending /\ order.price >= head[1].price
    \/ ~descending /\ order.price <= head[1].price

\* line 39: the new order becomes the head
GoesFirst(head, order, descending) ==
    \/ head = <<>>
    \/ descending /\ order.price > head[1].price
    \/ ~descending /\ order.price < head[1].price

\* SinksPast with the price tests of line 44 made strict: the scan stops at
\* the first order of equal price.
SinksPastStrict(order, current, descending) ==
    \/ descending /\ order.price < current.price
    \/ ~descending /\ order.price > current.price

\* line 44: the scan moves past `current`
SinksPast(order, current, descending) ==
    \/ descending /\ order.price <= current.price
    \/ ~descending /\ order.price >= current.price

\* lines 43-45: the number of orders the scan moves past, starting after i
RECURSIVE ScanFrom(_, _, _, _)
ScanFrom(head, order, descending, i) ==
    IF i < Len(head) /\ SinksPast(order, head[i + 1], descending)
    THEN ScanFrom(head, order, descending, i + 1)
    ELSE i

\* _insert_sorted with line 47 not linking the new order to `current`: the
\* orders after the insertion point are lost.
InsertSortedLosingTail(head, order, descending) ==
    IF GoesFirst(head, order, descending)
    THEN <<order>> \o head
    ELSE SubSeq(head, 1, ScanFrom(head, order, descending, 0)) \o <<order>>

\* OrderBook._insert_sorted
InsertSorted(head, order, descending) ==
    IF GoesFirst(head, order, descending)
    THEN <<order>> \o head
    ELSE LET k == ScanFrom(head, order, descending, 0)
         IN SubSeq(head, 1, k) \o <<order>> \o SubSeq(head, k + 1, Len(head))

\* Crosses with the price test of line 53 left out.
CrossesAnyPrice(buys, sells) == buys # <<>> /\ sells # <<>>

\* Crosses with >= of line 53 written >: equal prices do not match.
CrossesStrict(buys, sells) ==
    buys # <<>> /\ sells # <<>> /\ buys[1].price > sells[1].price

\* line 53: the loop condition of match_orders
Crosses(buys, sells) ==
    buys # <<>> /\ sells # <<>> /\ buys[1].price >= sells[1].price

\* MatchedQuantity with max written for min.
MatchedQuantityMax(buy_order, sell_order) ==
    IF buy_order.quantity >= sell_order.quantity THEN buy_order.quantity ELSE sell_order.quantity

\* line 58
MatchedQuantity(buy_order, sell_order) == Min(buy_order.quantity, sell_order.quantity)

\* TradeEvent printing the buy order's price.
TradeEventAtBuyPrice(buy_order, sell_order) ==
    [quantity |-> Min(buy_order.quantity, sell_order.quantity),
     ticker_symbol |-> buy_order.ticker_symbol,
     price |-> buy_order.price]

\* line 60: the printed trade
TradeEvent(buy_order, sell_order) ==
    [quantity |-> MatchedQuantity(buy_order, sell_order),
     ticker_symbol |-> buy_order.ticker_symbol,
     price |-> sell_order.price]

\* Fill with the tests of lines 67 and 69 never true: nothing is unlinked.
FillNeverUnlinking(side, m) == <<[side[1] EXCEPT !.quantity = @ - m]>> \o Tail(side)

\* Fill unlinking the head whatever quantity it has left.
FillUnlinkingHead(side, m) == Tail(side)

\* lines 63-70 for one side: the head's quantity drops by m; a head at 0 is unlinked
Fill(side, m) ==
    IF side[1].quantity - m = 0
    THEN Tail(side)
    ELSE <<[side[1] EXCEPT !.quantity = @ - m]>> \o Tail(side)

\* The slot of the call thread t has in progress.
BookOf(t) == TickerIndex(hash_of[new_order[t].ticker_symbol])

\* ------------------------------------------------------------------- actions

Init ==
    /\ hash_of = [s \in Symbols |-> Unhashed]
    /\ buy_orders = [b \in Slots |-> <<>>]
    /\ sell_orders = [b \in Slots |-> <<>>]
    /\ lock = [b \in Slots |-> NoThread]
    /\ pc = [t \in Threads |-> "idle"]
    /\ new_order = [t \in Threads |-> NoOrder]
    /\ crossed = [t \in Threads |-> FALSE]
    /\ num_calls = 0
    /\ arrivals = [b \in Slots |-> 0]
    /\ inserted_qty = [b \in Slots |-> [Buy |-> 0, Sell |-> 0]]
    /\ trades = [b \in Slots |-> <<>>]
    /\ calls = [t \in Threads |-> <<>>]

\* simulate_market_activity line 95 -> StockExchange.add_order -> line 26:
\* the thread starts a call with arguments drawn from `orders`.
Call(t, orders, limit) ==
    /\ pc[t] = "idle"
    /\ num_calls < limit
    /\ num_calls' = num_calls + 1
    /\ \E args \in orders :
         /\ \E h \in HashSamples[args.ticker_symbol] :
              /\ hash_of[args.ticker_symbol] \in {Unhashed, h}
              /\ hash_of' = [hash_of EXCEPT ![args.ticker_symbol] = h]
         /\ new_order' = [new_order EXCEPT ![t] = args]
    /\ pc' = [pc EXCEPT ![t] = "acquire_insert"]
    /\ UNCHANGED <<buy_orders, sell_orders, lock, crossed, arrivals, inserted_qty, trades>>

\* line 28: with self.lock
AcquireInsert(t) ==
    /\ pc[t] = "acquire_insert"
    /\ lock[BookOf(t)] = NoThread
    /\ lock' = [lock EXCEPT ![BookOf(t)] = t]
    /\ pc' = [pc EXCEPT ![t] = "insert"]
    /\ UNCHANGED <<hash_of, buy_orders, sell_orders, new_order, crossed, num_calls,
                   arrivals, inserted_qty, trades>>

\* lines 29-32
Insert(t) ==
    /\ pc[t] = "insert"
    /\ LET b == BookOf(t)
           order == TradeOrder(new_order[t], arrivals[b] + 1)
       IN /\ IF order.order_type = "Buy"
             THEN /\ buy_orders' = [buy_orders EXCEPT ![b] = InsertSorted(@, order, TRUE)]
                  /\ UNCHANGED sell_orders
                  /\ inserted_qty' = [inserted_qty EXCEPT ![b].Buy = @ + order.quantity]
             ELSE /\ sell_orders' = [sell_orders EXCEPT ![b] = InsertSorted(@, order, FALSE)]
                  /\ UNCHANGED buy_orders
                  /\ inserted_qty' = [inserted_qty EXCEPT ![b].Sell = @ + order.quantity]
          /\ arrivals' = [arrivals EXCEPT ![b] = @ + 1]
          /\ crossed' = [crossed EXCEPT ![t] = Crosses(buy_orders'[b], sell_orders'[b])]
    /\ pc' = [pc EXCEPT ![t] = "release_insert"]
    /\ UNCHANGED <<hash_of, lock, new_order, num_calls, trades>>

\* ReleaseInsert leaving the lock held (acquire with no release).
ReleaseInsertKeepingLock(t) ==
    /\ pc[t] = "release_insert"
    /\ pc' = [pc EXCEPT ![t] = "acquire_match"]
    /\ UNCHANGED <<hash_of, buy_orders, sell_orders, lock, new_order, crossed, num_calls,
                   arrivals, inserted_qty, trades>>

\* the end of the with block of lines 28-32
ReleaseInsert(t) ==
    /\ pc[t] = "release_insert"
    /\ lock' = [lock EXCEPT ![BookOf(t)] = NoThread]
    /\ pc' = [pc EXCEPT ![t] = "acquire_match"]
    /\ UNCHANGED <<hash_of, buy_orders, sell_orders, new_order, crossed, num_calls,
                   arrivals, inserted_qty, trades>>

\* AcquireMatch entering the block without waiting for the lock to be free.
AcquireMatchUnguarded(t) ==
    /\ pc[t] = "acquire_match"
    /\ lock' = [lock EXCEPT ![BookOf(t)] = t]
    /\ pc' = [pc EXCEPT ![t] = "match"]
    /\ UNCHANGED <<hash_of, buy_orders, sell_orders, new_order, crossed, num_calls,
                   arrivals, inserted_qty, trades>>

\* line 35 -> line 52: with self.lock
AcquireMatch(t) ==
    /\ pc[t] = "acquire_match"
    /\ lock[BookOf(t)] = NoThread
    /\ lock' = [lock EXCEPT ![BookOf(t)] = t]
    /\ pc' = [pc EXCEPT ![t] = "match"]
    /\ UNCHANGED <<hash_of, buy_orders, sell_orders, new_order, crossed, num_calls,
                   arrivals, inserted_qty, trades>>

\* lines 53-70: one iteration of the loop
MatchIter(t) ==
    /\ pc[t] = "match"
    /\ LET b == BookOf(t)
           buy_order == buy_orders[b][1]
           sell_order == sell_orders[b][1]
           m == MatchedQuantity(buy_order, sell_order)
       IN /\ Crosses(buy_orders[b], sell_orders[b])
          /\ trades' = [trades EXCEPT ![b] = Append(@, TradeEvent(buy_order, sell_order))]
          /\ buy_orders' = [buy_orders EXCEPT ![b] = Fill(@, m)]
          /\ sell_orders' = [sell_orders EXCEPT ![b] = Fill(@, m)]
    /\ UNCHANGED <<hash_of, lock, pc, new_order, crossed, num_calls, arrivals, inserted_qty>>

\* line 53 false: the loop ends, the lock is released and add_order returns;
\* the locals of the call are gone
ReleaseMatch(t) ==
    /\ pc[t] = "match"
    /\ ~Crosses(buy_orders[BookOf(t)], sell_orders[BookOf(t)])
    /\ lock' = [lock EXCEPT ![BookOf(t)] = NoThread]
    /\ pc' = [pc EXCEPT ![t] = "idle"]
    /\ new_order' = [new_order EXCEPT ![t] = NoOrder]
    /\ crossed' = [crossed EXCEPT ![t] = FALSE]
    /\ UNCHANGED <<hash_of, buy_orders, sell_orders, num_calls, arrivals, inserted_qty, trades>>

\* The steps of a call in progress.
Step(t) ==
    \/ AcquireInsert(t)
    \/ Insert(t)
    \/ ReleaseInsert(t)
    \/ AcquireMatch(t)
    \/ MatchIter(t)
    \/ ReleaseMatch(t)

\* The history variable records a call as it starts.
Record(t) == calls' = [calls EXCEPT ![t] = Append(@, new_order'[t])]

\* One symbol, positive quantities and prices.
Next ==
    \E t \in Threads :
        \/ Call(t, BookOrders, MaxCalls) /\ UNCHANGED calls
        \/ Step(t) /\ UNCHANGED calls

Spec == Init /\ [][Next]_vars

\* Every thread with a call in progress keeps being scheduled: a step that
\* stays possible is taken.
Fairness == \A t \in Threads : WF_vars(Step(t) /\ UNCHANGED calls)

\* One symbol, positive quantities and prices, under fair scheduling.
NextFair ==
    \E t \in Threads :
        \/ Call(t, BookOrders, FairCalls) /\ UNCHANGED calls
        \/ Step(t) /\ UNCHANGED calls

SpecFair == Init /\ [][NextFair]_vars /\ Fairness

\* One symbol, one share per order, with the history of calls.
NextLin ==
    \E t \in Threads :
        \/ Call(t, UnitOrders, LinCalls) /\ Record(t)
        \/ Step(t) /\ UNCHANGED calls

SpecLin == Init /\ [][NextLin]_vars

\* Two symbols.
NextExchange ==
    \E t \in Threads :
        \/ Call(t, ExchangeOrders, MaxCalls) /\ UNCHANGED calls
        \/ Step(t) /\ UNCHANGED calls

SpecExchange == Init /\ [][NextExchange]_vars

\* One symbol; a call starts only when no call is in progress.
NextSolo ==
    \E t \in Threads :
        \/ Call(t, BookOrders, SoloCalls) /\ (\A u \in Threads : pc[u] = "idle") /\ UNCHANGED calls
        \/ Step(t) /\ UNCHANGED calls

SpecSolo == Init /\ [][NextSolo]_vars

\* Any quantity and price, under fair scheduling.
NextRawFair ==
    \E t \in Threads :
        \/ Call(t, RawOrders, FairCalls) /\ UNCHANGED calls
        \/ Step(t) /\ UNCHANGED calls

SpecRawFair == Init /\ [][NextRawFair]_vars /\ Fairness

\* Any quantity and price.
NextRaw ==
    \E t \in Threads :
        \/ Call(t, RawOrders, MaxCalls) /\ UNCHANGED calls
        \/ Step(t) /\ UNCHANGED calls

SpecRaw == Init /\ [][NextRaw]_vars

\* -------------------------------------------------- sequential executions

\* match_orders run to the end on one book: lines 52-70 as one piece.
RECURSIVE MatchAll(_)
MatchAll(book) ==
    IF Crosses(book.buy, book.sell)
    THEN LET m == MatchedQuantity(book.buy[1], book.sell[1])
         IN MatchAll([buy |-> Fill(book.buy, m),
                      sell |-> Fill(book.sell, m),
                      trades |-> Append(book.trades, TradeEvent(book.buy[1], book.sell[1]))])
    ELSE book

\* OrderBook.add_order with nothing running beside it: insert, then match.
AddOrderAlone(book, args) ==
    LET order == TradeOrder(args, 0)
    IN MatchAll(IF args.order_type = "Buy"
                THEN [book EXCEPT !.buy = InsertSorted(@, order, TRUE)]
                ELSE [book EXCEPT !.sell = InsertSorted(@, order, FALSE)])

\* The calls of `run` made one after another on the book of slot b.
RECURSIVE RunAlone(_, _, _)
RunAlone(book, run, b) ==
    IF run = <<>> THEN book
    ELSE RunAlone(IF TickerIndex(hash_of[Head(run).ticker_symbol]) = b
                  THEN AddOrderAlone(book, Head(run))
                  ELSE book,
                  Tail(run), b)

\* Every order in which the threads' calls can run one after another,
\* each thread's calls in its program order.
RECURSIVE Merges(_)
Merges(progs) ==
    IF \A t \in Threads : progs[t] = <<>>
    THEN {<<>>}
    ELSE UNION {{<<Head(progs[t])>> \o m : m \in Merges([progs EXCEPT ![t] = Tail(@)])} :
                t \in {u \in Threads : progs[u] # <<>>}}

\* A book side without the arrival numbers.
Contents(side) ==
    [i \in 1..Len(side) |-> [order_type |-> side[i].order_type,
                             ticker_symbol |-> side[i].ticker_symbol,
                             quantity |-> side[i].quantity,
                             price |-> side[i].price]]

EmptyBook == [buy |-> <<>>, sell |-> <<>>, trades |-> <<>>]

\* ------------------------------------------------------------------ helpers

\* Thread t has a call in progress on the book of slot b.
InCall(t, b) == pc[t] # "idle" /\ BookOf(t) = b

\* No call is in progress on the book of slot b.
Quiet(b) == \A t \in Threads : ~InCall(t, b)

RECURSIVE SumQuantity(_)
SumQuantity(seq) ==
    IF seq = <<>> THEN 0 ELSE Head(seq).quantity + SumQuantity(Tail(seq))

\* ------------------------------------------------------------------- claims

\* C1: the insert and the matching pass of one add_order call are one
\* indivisible unit: while a thread has inserted its order and its own
\* matching pass has not ended, no other thread has inserted into, or is
\* running a matching pass on, the same book.
C1_InsertMatchAtomic ==
    \A t \in Threads : \A u \in Threads \ {t} :
        (pc[t] = "acquire_match" /\ pc[u] # "idle" /\ BookOf(u) = BookOf(t))
        => pc[u] \notin {"release_insert", "match"}

\* C2: linearizability per book: once every call has returned, the two
\* sides and the trade lines of each book are those of the calls run one
\* after another in some order that keeps each thread's program order.
C2_Linearizable ==
    (\A t \in Threads : pc[t] = "idle") =>
        \A b \in Slots :
            \E run \in Merges(calls) :
                LET book == RunAlone(EmptyBook, run, b)
                IN /\ Contents(buy_orders[b]) = Contents(book.buy)
                   /\ Contents(sell_orders[b]) = Contents(book.sell)
                   /\ trades[b] = book.trades

\* C3: no persistent cross: when no add_order call is in progress on a
\* book, one of its sides is empty or its best buy price is strictly below
\* its best sell price.
C3_NoPersistentCross ==
    \A b \in Slots :
        Quiet(b) =>
            \/ buy_orders[b] = <<>>
            \/ sell_orders[b] = <<>>
            \/ buy_orders[b][1].price < sell_orders[b][1].price

\* C3 witness: a quiet book with both sides resident after a trade.
C3_Witness ==
    \E b \in Slots :
        /\ Quiet(b)
        /\ buy_orders[b] # <<>>
        /\ sell_orders[b] # <<>>
        /\ trades[b] # <<>>

\* The orders resident in the book of slot b.
Residents(b) ==
    {buy_orders[b][i] : i \in 1..Len(buy_orders[b])}
        \cup {sell_orders[b][i] : i \in 1..Len(sell_orders[b])}

\* C4: symbol isolation: two distinct symbols are never routed to the same
\* OrderBook, and the sides of one OrderBook hold orders of one symbol only.
C4_SymbolIsolation ==
    /\ \A s1 \in Symbols : \A s2 \in Symbols \ {s1} :
           (hash_of[s1] # Unhashed /\ hash_of[s2] # Unhashed)
           => TickerIndex(hash_of[s1]) # TickerIndex(hash_of[s2])
    /\ \A b \in Slots : \A o1 \in Residents(b) : \A o2 \in Residents(b) :
           o1.ticker_symbol = o2.ticker_symbol

\* C5: invalid input never reaches a book: no resident order has a
\* quantity <= 0 or a price <= 0, and no printed trade has a quantity <= 0.
C5_InvalidInputRejected ==
    \A b \in Slots :
        /\ \A o \in Residents(b) : o.quantity > 0 /\ o.price > 0
        /\ \A i \in 1..Len(trades[b]) : trades[b][i].quantity > 0

\* C6: every trade is made from the two heads at the moment of the match:
\* its quantity is the smaller of their quantities and its price is the
\* price of the head sell order.
C6_TradeFromHeads ==
    [][\A b \in Slots :
          trades'[b] # trades[b] =>
              /\ buy_orders[b] # <<>>
              /\ sell_orders[b] # <<>>
              /\ trades'[b] = Append(trades[b],
                     [quantity |-> IF buy_orders[b][1].quantity <= sell_orders[b][1].quantity
                                   THEN buy_orders[b][1].quantity
                                   ELSE sell_orders[b][1].quantity,
                      ticker_symbol |-> buy_orders[b][1].ticker_symbol,
                      price |-> sell_orders[b][1].price])]_vars

\* C6 witness: a buy that arrived after the sell it lifted traded at the
\* sell's lower price (the rest of the buy is resident at its own price).
C6_Witness ==
    \E b \in Slots :
        /\ Len(trades[b]) = 1
        /\ Len(buy_orders[b]) = 1
        /\ buy_orders[b][1].seq = 2
        /\ buy_orders[b][1].quantity = 1
        /\ inserted_qty[b].Buy = 2
        /\ buy_orders[b][1].price > trades[b][1].price

\* C7: price-time ordering: the buy side is non-increasing in price and the
\* sell side non-decreasing, and of two orders of one price on one side the
\* one inserted earlier is nearer the head.
C7_PriceTimeOrder ==
    \A b \in Slots :
        /\ \A i \in 1..Len(buy_orders[b]) : \A j \in (i + 1)..Len(buy_orders[b]) :
               \/ buy_orders[b][i].price > buy_orders[b][j].price
               \/ /\ buy_orders[b][i].price = buy_orders[b][j].price
                  /\ buy_orders[b][i].seq < buy_orders[b][j].seq
        /\ \A i \in 1..Len(sell_orders[b]) : \A j \in (i + 1)..Len(sell_orders[b]) :
               \/ sell_orders[b][i].price < sell_orders[b][j].price
               \/ /\ sell_orders[b][i].price = sell_orders[b][j].price
                  /\ sell_orders[b][i].seq < sell_orders[b][j].seq

\* C7 witness: three orders on one side, two of them at one price, the last
\* arrival not at the tail.
C7_Witness ==
    \E b \in Slots :
        /\ Len(sell_orders[b]) = 3
        /\ sell_orders[b][1].price = sell_orders[b][2].price
        /\ sell_orders[b][2].price < sell_orders[b][3].price
        /\ sell_orders[b][2].seq = 3

\* The orders of `side` that entered the book before order o at o's price.
AheadOf(side, o) ==
    {side[i] : i \in {k \in 1..Len(side) : side[k].price = o.price /\ side[k].seq < o.seq}}

\* Order o is in `side` with the quantity it has in o.
Untouched(side, o) == \E k \in 1..Len(side) : side[k] = o

\* C8: FIFO at equal price: an order takes part in no trade while an order
\* of the same side and price that was inserted before it is resident.
C8_FifoAtEqualPrice ==
    [][\A b \in Slots :
          /\ \A i \in 1..Len(buy_orders[b]) :
                 AheadOf(buy_orders[b], buy_orders[b][i]) # {}
                 => Untouched(buy_orders'[b], buy_orders[b][i])
          /\ \A i \in 1..Len(sell_orders[b]) :
                 AheadOf(sell_orders[b], sell_orders[b][i]) # {}
                 => Untouched(sell_orders'[b], sell_orders[b][i])]_vars

\* C8 witness: of two buys at one price the earlier has been partly filled
\* and the later still has all of its quantity.
C8_Witness ==
    \E b \in Slots :
        /\ Len(buy_orders[b]) = 2
        /\ buy_orders[b][1].price = buy_orders[b][2].price
        /\ buy_orders[b][1].seq < buy_orders[b][2].seq
        /\ trades[b] # <<>>
        /\ inserted_qty[b].Buy > buy_orders[b][1].quantity + buy_orders[b][2].quantity

\* C9: quantity conservation: for each book and each side, the quantity
\* inserted so far minus the quantity still resident is the total quantity
\* of the book's trades.
C9_QuantityConservation ==
    \A b \in Slots :
        /\ inserted_qty[b].Buy - SumQuantity(buy_orders[b]) = SumQuantity(trades[b])
        /\ inserted_qty[b].Sell - SumQuantity(sell_orders[b]) = SumQuantity(trades[b])

\* C9 witness: two trades made, with a partly filled order left resident.
C9_Witness ==
    \E b \in Slots :
        /\ Len(trades[b]) = 2
        /\ sell_orders[b] # <<>>
        /\ inserted_qty[b].Sell > SumQuantity(sell_orders[b]) + 1
        /\ SumQuantity(sell_orders[b]) = 1

\* C10: a call whose order did not cross when it was inserted prints no
\* trade in its own matching pass and changes neither side in that pass.
C10_NoCrossNoTrade ==
    [][\A t \in Threads :
          (pc[t] = "match" /\ ~crossed[t]) =>
              /\ trades'[BookOf(t)] = trades[BookOf(t)]
              /\ buy_orders'[BookOf(t)] = buy_orders[BookOf(t)]
              /\ sell_orders'[BookOf(t)] = sell_orders[BookOf(t)]]_vars

\* The side of the book of slot b that holds orders of type ty, and the other.
OwnSide(b, ty) == IF ty = "Buy" THEN buy_orders[b] ELSE sell_orders[b]
OppositeSide(b, ty) == IF ty = "Buy" THEN sell_orders[b] ELSE buy_orders[b]

\* A side after its head has been filled by m: gone when nothing is left of
\* it, resident with the rest otherwise.
AfterFill(side, m) ==
    IF side[1].quantity > m
    THEN <<[side[1] EXCEPT !.quantity = side[1].quantity - m]>> \o Tail(side)
    ELSE Tail(side)

\* C11: book walk of a call that runs alone: every trade of its matching
\* pass is between the incoming order, at the head of its side, and the
\* best resting order of the opposite side, for the smaller of their
\* quantities at the sell order's price; whichever of the two is fully
\* filled is unlinked and the other stays with exactly its unfilled
\* quantity; the pass ends only when the incoming order is exhausted or the
\* best resting price no longer crosses.
C11_BookWalk ==
    [][\A t \in Threads :
          pc[t] = "match" =>
              LET b == BookOf(t)
                  ty == new_order[t].order_type
                  own == OwnSide(b, ty)
                  opp == OppositeSide(b, ty)
              IN /\ trades'[b] # trades[b] =>
                       LET m == IF own[1].quantity <= opp[1].quantity
                                THEN own[1].quantity ELSE opp[1].quantity
                       IN /\ own[1].seq = arrivals[b]
                          /\ trades'[b] = Append(trades[b],
                                 [quantity |-> m,
                                  ticker_symbol |-> new_order[t].ticker_symbol,
                                  price |-> IF ty = "Buy" THEN opp[1].price ELSE own[1].price])
                          /\ OwnSide(b, ty)' = AfterFill(own, m)
                          /\ OppositeSide(b, ty)' = AfterFill(opp, m)
                 /\ pc'[t] = "idle" =>
                       /\ buy_orders'[b] = buy_orders[b]
                       /\ sell_orders'[b] = sell_orders[b]
                       /\ \/ own = <<>>
                          \/ own[1].seq # arrivals[b]
                          \/ opp = <<>>
                          \/ ty = "Buy" /\ own[1].price < opp[1].price
                          \/ ty = "Sell" /\ own[1].price > opp[1].price]_vars

\* C11 witness: Sell 1@1 and Sell 2@2 resting, then Buy 2@2: the trades are
\* 1@1 then 1@2, Sell 1@2 is left and the buy side is empty.
C11_Witness ==
    \E b \in Slots :
        /\ Quiet(b)
        /\ trades[b] = <<[quantity |-> 1, ticker_symbol |-> "AAPL", price |-> 1],
                         [quantity |-> 1, ticker_symbol |-> "AAPL", price |-> 2]>>
        /\ buy_orders[b] = <<>>
        /\ Len(sell_orders[b]) = 1
        /\ sell_orders[b][1].quantity = 1
        /\ sell_orders[b][1].price = 2
        /\ sell_orders[b][1].seq = 2
        /\ inserted_qty[b] = [Buy |-> 2, Sell |-> 3]

\* C12: cross-symbol independence: a call that waits for a lock never waits
\* for a lock held by a call for a different symbol.
C12_CrossSymbolIndependence ==
    \A t \in Threads : \A u \in Threads \ {t} :
        (/\ pc[t] \in {"acquire_insert", "acquire_match"}
         /\ pc[u] # "idle"
         /\ new_order[t].ticker_symbol # new_order[u].ticker_symbol)
        => lock[BookOf(t)] # u

\* Every started call has returned.
AllReturned == \A t \in Threads : pc[t] = "idle"

\* C13: every started call eventually returns, and once all calls have
\* returned no trade is possible in any book.
C13_RunsToCompletion ==
    /\ \A t \in Threads : (pc[t] # "idle") ~> (pc[t] = "idle")
    /\ [](AllReturned => \A b \in Slots : ~Crosses(buy_orders[b], sell_orders[b]))

\* C13 witness: a call waits for the lock of its book while the other
\* thread is inside its matching pass with a trade to make.
C13_Witness ==
    \E t \in Threads : \E u \in Threads \ {t} :
        /\ pc[t] \in {"acquire_insert", "acquire_match"}
        /\ pc[u] = "match"
        /\ lock[BookOf(t)] = u
        /\ Crosses(buy_orders[BookOf(u)], sell_orders[BookOf(u)])

\* The arrival numbers of the orders of a side.
SeqsOf(side) == {side[i].seq : i \in 1..Len(side)}

\* C14: resident quantities stay positive: whenever a book's lock is not
\* held every resident order has quantity > 0; an order whose quantity
\* reaches 0 in a match is not resident after that step, and an order that
\* has left a side never comes back.
C14_ResidentQuantityPositive ==
    /\ [](\A b \in Slots :
            lock[b] = NoThread => \A o \in Residents(b) : o.quantity > 0)
    /\ [][\A b \in Slots :
            /\ trades'[b] # trades[b] =>
                   LET m == trades'[b][Len(trades'[b])].quantity
                   IN /\ buy_orders[b][1].quantity = m
                         => buy_orders[b][1].seq \notin SeqsOf(buy_orders'[b])
                      /\ sell_orders[b][1].quantity = m
                         => sell_orders[b][1].seq \notin SeqsOf(sell_orders'[b])
            /\ \A n \in SeqsOf(buy_orders'[b]) \cup SeqsOf(sell_orders'[b]) :
                   \/ n \in SeqsOf(buy_orders[b]) \cup SeqsOf(sell_orders[b])
                   \/ n > arrivals[b]]_vars

\* C14 witness: with the lock free, a buy of 2 is resident with 1 left after
\* a sell of 1 was filled and unlinked.
C14_Witness ==
    \E b \in Slots :
        /\ lock[b] = NoThread
        /\ inserted_qty[b] = [Buy |-> 2, Sell |-> 1]
        /\ sell_orders[b] = <<>>
        /\ Len(buy_orders[b]) = 1
        /\ buy_orders[b][1].quantity = 1
        /\ Len(trades[b]) = 1

\* Thread t is inside a with-block of its book.
InCritical(t) == pc[t] \in {"insert", "release_insert", "match"}

\* C15: mutual exclusion per book: at most one thread is inside a critical
\* section of a book, that thread holds the book's lock, and the sides of a
\* book change only in a step of the thread holding its lock.
C15_MutualExclusion ==
    /\ [](\A t \in Threads :
            InCritical(t) =>
                /\ lock[BookOf(t)] = t
                /\ \A u \in Threads \ {t} : InCritical(u) => BookOf(u) # BookOf(t))
    /\ [][\A b \in Slots :
            (buy_orders'[b] # buy_orders[b] \/ sell_orders'[b] # sell_orders[b]) =>
                /\ lock[b] \in Threads
                /\ lock'[b] = lock[b]
                /\ pc[lock[b]] \in {"insert", "match"}
                /\ BookOf(lock[b]) = b
                /\ \A u \in Threads \ {lock[b]} :
                       pc'[u] = pc[u] /\ new_order'[u] = new_order[u]]_vars

\* C15 witness: one thread is about to insert under the lock while another
\* thread, whose order is already in the same book, waits for that lock.
C15_Witness ==
    \E t \in Threads : \E u \in Threads \ {t} :
        /\ pc[t] = "insert"
        /\ pc[u] = "acquire_match"
        /\ BookOf(u) = BookOf(t)
        /\ lock[BookOf(t)] = t

\* C16: limit prices are respected: the price of every trade is at most the
\* price of the buy order it fills and equal to the price of the sell order
\* it fills.
C16_LimitPrices ==
    [][\A b \in Slots :
          trades'[b] # trades[b] =>
              /\ trades'[b][Len(trades'[b])].price <= buy_orders[b][1].price
              /\ trades'[b][Len(trades'[b])].price = sell_orders[b][1].price]_vars

\* C16 witness: a resting buy at 2 was partly filled by a later sell at 1,
\* at price 1.
C16_Witness ==
    \E b \in Slots :
        /\ Len(trades[b]) = 1
        /\ trades[b][1].price = 1
        /\ Len(buy_orders[b]) = 1
        /\ buy_orders[b][1].seq = 1
        /\ buy_orders[b][1].price = 2
        /\ buy_orders[b][1].quantity = 1

\* The number of orders resident in the book of slot b.
NumResident(b) == Len(buy_orders[b]) + Len(sell_orders[b])

\* C17: every iteration of the matching loop unlinks at least one order;
\* during a pass the trades printed so far plus the orders still resident
\* never exceed their total when the pass took the lock (so a pass prints
\* at most as many trades as there were resident orders); and every pass
\* ends, for zero and negative quantities too.
C17_MatchTerminates ==
    /\ [][\A b \in Slots :
            /\ trades'[b] # trades[b] => NumResident(b)' < NumResident(b)
            /\ (lock[b] \in Threads /\ pc[lock[b]] = "match") =>
                   Len(trades'[b]) + NumResident(b)' <= Len(trades[b]) + NumResident(b)]_vars
    /\ \A t \in Threads : (pc[t] = "match") ~> (pc[t] = "idle")

\* C17 witness: a pass that has printed a trade of quantity <= 0 and still
\* holds the lock.
C17_Witness ==
    \E t \in Threads :
        /\ pc[t] = "match"
        /\ trades[BookOf(t)] # <<>>
        /\ trades[BookOf(t)][1].quantity <= 0

\* A side without the order of arrival number n.
Without(side, n) == SelectSeq(side, LAMBDA o : o.seq # n)

\* C18: insertion only adds: an insert leaves the orders already resident
\* on that side as they were, in their order, and adds the new one, and
\* leaves the other side alone; an order leaves a side only as the head,
\* unlinked by a matching step that brought its quantity to 0.
C18_InsertOnlyAdds ==
    [][\A b \in Slots :
          /\ arrivals'[b] # arrivals[b] =>
                 LET t == lock[b]
                     n == arrivals'[b]
                 IN IF new_order[t].order_type = "Buy"
                    THEN /\ n \in SeqsOf(buy_orders'[b])
                         /\ Without(buy_orders'[b], n) = buy_orders[b]
                         /\ sell_orders'[b] = sell_orders[b]
                    ELSE /\ n \in SeqsOf(sell_orders'[b])
                         /\ Without(sell_orders'[b], n) = sell_orders[b]
                         /\ buy_orders'[b] = buy_orders[b]
          /\ \A n \in SeqsOf(buy_orders[b]) \ SeqsOf(buy_orders'[b]) :
                 /\ trades'[b] # trades[b]
                 /\ buy_orders[b][1].seq = n
                 /\ buy_orders[b][1].quantity = trades'[b][Len(trades'[b])].quantity
                 /\ buy_orders'[b] = Tail(buy_orders[b])
          /\ \A n \in SeqsOf(sell_orders[b]) \ SeqsOf(sell_orders'[b]) :
                 /\ trades'[b] # trades[b]
                 /\ sell_orders[b][1].seq = n
                 /\ sell_orders[b][1].quantity = trades'[b][Len(trades'[b])].quantity
                 /\ sell_orders'[b] = Tail(sell_orders[b])]_vars

\* C18 witness: an order was inserted ahead of an order already resident on
\* its side while the other side holds an order.
C18_Witness ==
    \E b \in Slots :
        /\ Len(sell_orders[b]) = 2
        /\ sell_orders[b][1].seq > sell_orders[b][2].seq
        /\ buy_orders[b] # <<>>

====
